---- MODULE Spec2Model ----
\* Model of consumers/consumer_hatfield.py: a Kafka consumer that tallies the
\* distinct readers of each (author, title) book and redraws a bar chart.
\*
\* The state is the module-level reader_counts, what update_chart last read
\* of it, the consumer handle, and main's position.  process_message is cut
\* at the points where it can leave early: json.loads (line 54), the
\* subscript reader_counts[book_key] (line 65, first half), the call
\* .add(reader) (line 65, second half) and update_chart() (line 70).  A
\* KeyboardInterrupt is not an Exception, so the handlers of lines 72-75 let
\* it through to main's handler at line 98 from any of these points.
EXTENDS Naturals, Sequences, FiniteSets

VARIABLES
    pc,             \* where main is
    consumer,       \* the handle of line 89: "none", "open", "closed"
    closes,         \* how many times consumer.close() has been called
    reader_counts,  \* line 13: book key -> set of readers
    chart,          \* what update_chart last read: book key -> bar height
    message,        \* message_str, the payload being processed
    book_key,       \* local of process_message
    reader,         \* local of process_message
    branch,         \* the way the last call of process_message ended
    exit,           \* why the for loop ended
    stoppedAt,      \* where main was when the for loop ended
    consumed,       \* every payload the Source has yielded, in order
    prev_counts     \* reader_counts as it was when the last payload arrived

vars == <<pc, consumer, closes, reader_counts, chart, message, book_key,
          reader, branch, exit, stoppedAt, consumed, prev_counts>>

\* ---------------------------------------------------------------- bounds

\* The Source yields at most this many payloads in a run.
MaxMsgs == 3

\* ------------------------------------------------------- values, payloads

\* A JSON value as Python sees it once parsed: a str, or a list (which has
\* no hash).  Absent marks a member the object does not have.
Str(s) == [t |-> "str", s |-> s]
List == [t |-> "list", s |-> "x"]
Absent == [t |-> "absent", s |-> ""]
NoValue == [t |-> "none", s |-> ""]

UnknownAuthor == Str("Unknown Author")
UnknownTitle == Str("Unknown Title")
UnknownReader == Str("Unknown Reader")

Fields == {"author", "title", "reader"}

Object(a, t, r) == [form |-> "object", author |-> a, title |-> t, reader |-> r]
NonObject(f) == [form |-> f, author |-> Absent, title |-> Absent, reader |-> Absent]

\* The payloads the Source can yield: text that is not JSON, JSON that is
\* not an object, and objects with each member absent, a string, or a list.
Payloads ==
    {NonObject("malformed"), NonObject("number"), NonObject("array")}
    \cup {Object(a, t, r) : a \in {Absent, Str("A"), List},
                            t \in {Absent, Str("T")},
                            r \in {Absent, Str("X"), List}}
    \cup {Object(Str("A"), List, Str("X"))}

NoMessage == NonObject("none")

\* json.loads: JSONDecodeError on text that is not JSON, else the value; an
\* object becomes a dict holding exactly the members the text has.
JsonLoads(text) ==
    IF text.form = "malformed"
    THEN [ok |-> FALSE, isdict |-> FALSE, dict |-> [f \in {} |-> Absent]]
    ELSE IF text.form = "object"
    THEN [ok |-> TRUE, isdict |-> TRUE,
          dict |-> [f \in {g \in Fields : text[g] # Absent} |-> text[f]]]
    ELSE [ok |-> TRUE, isdict |-> FALSE, dict |-> [f \in {} |-> Absent]]

\* Mutant of DictGet: .get(key) with the default left out, which gives None.
DictGetNoDefault(d, key, default) == IF key \in DOMAIN d THEN d[key] ELSE NoValue

\* dict.get(key, default)
DictGet(d, key, default) == IF key \in DOMAIN d THEN d[key] ELSE default

\* hash(v) raises TypeError for a list, and for a tuple holding one.
Hashable(v) == v.t # "list"
HashableKey(k) == Hashable(k[1]) /\ Hashable(k[2])

\* defaultdict(set).__getitem__: a missing key is inserted with set().
DefaultDictGetItem(d, k) ==
    IF k \in DOMAIN d THEN d
    ELSE [j \in DOMAIN d \cup {k} |-> IF j = k THEN {} ELSE d[j]]

\* Mutant of SetAdd: a list and .append in place of a set and .add, so a
\* reader that is already there is stored once more.
SetAddAppends(s, x) ==
    IF x \in s THEN s \cup {[t |-> "again", s |-> x.s]} ELSE s \cup {x}

\* set.add
SetAdd(s, x) == s \cup {x}

\* update_chart reads the keys and the len of each set.
Snapshot(d) == [k \in DOMAIN d |-> Cardinality(d[k])]

EmptyCounts == [k \in {} |-> {}]
NoKey == <<NoValue, NoValue>>

Running == {"polling", "decoding", "aggregating", "adding", "presenting"}

\* ------------------------------------------------------------------ Init

Init ==
    /\ pc = "starting"
    /\ consumer = "none"
    /\ closes = 0
    /\ reader_counts = EmptyCounts
    /\ chart = Snapshot(EmptyCounts)
    /\ message = NoMessage
    /\ book_key = NoKey
    /\ reader = NoValue
    /\ branch = "none"
    /\ exit = "none"
    /\ stoppedAt = "none"
    /\ consumed = <<>>
    /\ prev_counts = EmptyCounts

\* --------------------------------------------------------------- actions

\* main, line 89: create_kafka_consumer returns the handle.
Acquire ==
    /\ pc = "starting"
    /\ pc' = "polling"
    /\ consumer' = "open"
    /\ UNCHANGED <<closes, reader_counts, chart, message, book_key, reader,
                   branch, exit, stoppedAt, consumed, prev_counts>>

\* main, line 89: create_kafka_consumer raises; the call is outside the try,
\* so the error leaves main and there is no handle to close.
AcquireFails ==
    /\ pc = "starting"
    /\ pc' = "raised"
    /\ UNCHANGED <<consumer, closes, reader_counts, chart, message, book_key,
                   reader, branch, exit, stoppedAt, consumed, prev_counts>>

\* main, lines 93-96: the Source yields the next payload and process_message
\* is called with it.
Poll(m) ==
    /\ pc = "polling"
    /\ Len(consumed) < MaxMsgs
    /\ pc' = "decoding"
    /\ message' = m
    /\ consumed' = Append(consumed, m)
    /\ prev_counts' = reader_counts
    /\ branch' = "in_flight"
    /\ UNCHANGED <<consumer, closes, reader_counts, chart, book_key, reader,
                   exit, stoppedAt>>

\* process_message returns to the loop (falls off the end, or leaves through
\* one of its except clauses): its locals are gone.
Return(how) ==
    /\ pc' = "polling"
    /\ branch' = how
    /\ book_key' = NoKey
    /\ reader' = NoValue

\* The for loop ends: control is in the handlers of lines 98-102.
LeaveLoop(why) ==
    /\ pc' = "stopping"
    /\ exit' = why
    /\ stoppedAt' = pc
    /\ UNCHANGED <<consumer, closes, reader_counts, chart, message, book_key,
                   reader, branch, consumed, prev_counts>>

\* Mutant of Decode: no except clause for JSONDecodeError, so text that is
\* not JSON raises into main's loop and ends it.
DecodeUncaught ==
    /\ pc = "decoding"
    /\ LET parsed == JsonLoads(message) IN
       IF ~parsed.ok THEN LeaveLoop("error")
       ELSE IF ~parsed.isdict
       THEN Return("not_dict")
            /\ UNCHANGED <<consumer, closes, reader_counts, chart, message,
                           exit, stoppedAt, consumed, prev_counts>>
       ELSE /\ pc' = "aggregating"
            /\ book_key' = <<DictGet(parsed.dict, "author", UnknownAuthor),
                             DictGet(parsed.dict, "title", UnknownTitle)>>
            /\ reader' = DictGet(parsed.dict, "reader", UnknownReader)
            /\ UNCHANGED <<branch, consumer, closes, reader_counts, chart,
                           message, exit, stoppedAt, consumed, prev_counts>>

\* Mutant of Decode: no isinstance test, so .get is called on whatever
\* json.loads returned and raises AttributeError on a number or a list.
DecodeNoIsinstance ==
    /\ pc = "decoding"
    /\ LET parsed == JsonLoads(message) IN
       IF ~parsed.ok THEN Return("json_error")
       ELSE IF ~parsed.isdict THEN Return("exception")
       ELSE /\ pc' = "aggregating"
            /\ book_key' = <<DictGet(parsed.dict, "author", UnknownAuthor),
                             DictGet(parsed.dict, "title", UnknownTitle)>>
            /\ reader' = DictGet(parsed.dict, "reader", UnknownReader)
            /\ UNCHANGED branch
    /\ UNCHANGED <<consumer, closes, reader_counts, chart, message, exit,
                   stoppedAt, consumed, prev_counts>>

\* process_message, lines 54-64: json.loads, the isinstance test, the three
\* .get calls and the key.
Decode ==
    /\ pc = "decoding"
    /\ LET parsed == JsonLoads(message) IN
       IF ~parsed.ok THEN Return("json_error")
       ELSE IF ~parsed.isdict THEN Return("not_dict")
       ELSE /\ pc' = "aggregating"
            /\ book_key' = <<DictGet(parsed.dict, "author", UnknownAuthor),
                             DictGet(parsed.dict, "title", UnknownTitle)>>
            /\ reader' = DictGet(parsed.dict, "reader", UnknownReader)
            /\ UNCHANGED branch
    /\ UNCHANGED <<consumer, closes, reader_counts, chart, message, exit,
                   stoppedAt, consumed, prev_counts>>

\* process_message, line 65, reader_counts[book_key]: TypeError when the key
\* has no hash (caught at line 74), else the key's set, created if missing.
Subscript ==
    /\ pc = "aggregating"
    /\ IF ~HashableKey(book_key)
       THEN Return("exception") /\ UNCHANGED reader_counts
       ELSE /\ pc' = "adding"
            /\ reader_counts' = DefaultDictGetItem(reader_counts, book_key)
            /\ UNCHANGED <<book_key, reader, branch>>
    /\ UNCHANGED <<consumer, closes, chart, message, exit, stoppedAt,
                   consumed, prev_counts>>

\* process_message, line 65, .add(reader): TypeError when the reader has no
\* hash (caught at line 74), else the reader joins the set.
AddReader ==
    /\ pc = "adding"
    /\ IF ~Hashable(reader)
       THEN Return("exception") /\ UNCHANGED reader_counts
       ELSE /\ pc' = "presenting"
            /\ reader_counts' =
                 [reader_counts EXCEPT ![book_key] = SetAdd(@, reader)]
            /\ UNCHANGED <<book_key, reader, branch>>
    /\ UNCHANGED <<consumer, closes, chart, message, exit, stoppedAt,
                   consumed, prev_counts>>

\* process_message, lines 67-70: update_chart reads reader_counts.
UpdateChart ==
    /\ pc = "presenting"
    /\ chart' = Snapshot(reader_counts)
    /\ Return("updated")
    /\ UNCHANGED <<consumer, closes, reader_counts, message, exit, stoppedAt,
                   consumed, prev_counts>>

\* KeyboardInterrupt, lines 98-99: raised wherever the interpreter is, in the
\* iteration of the consumer or inside process_message.
Interrupt ==
    /\ pc \in Running
    /\ LeaveLoop("interrupt")

\* The consumer's iterator is exhausted: the loop ends, no handler runs.
EndOfStream ==
    /\ pc = "polling"
    /\ LeaveLoop("end_of_stream")

\* Mutant of SourceError: no except Exception clause in main, so after the
\* finally clause has closed the consumer the error leaves main.
SourceErrorUncaught ==
    /\ pc = "polling"
    /\ pc' = "raised"
    /\ exit' = "error"
    /\ stoppedAt' = pc
    /\ consumer' = "closed"
    /\ closes' = closes + 1
    /\ UNCHANGED <<reader_counts, chart, message, book_key, reader, branch,
                   consumed, prev_counts>>

\* The consumer's iterator raises, lines 100-101.
SourceError ==
    /\ pc = "polling"
    /\ LeaveLoop("error")

\* Mutant of Close: close() at the end of the try block, not in a finally
\* clause, so an interrupted run returns without closing.
CloseUnlessInterrupted ==
    /\ pc = "stopping"
    /\ pc' = "stopped"
    /\ consumer' = IF exit = "interrupt" THEN consumer ELSE "closed"
    /\ closes' = IF exit = "interrupt" THEN closes ELSE closes + 1
    /\ UNCHANGED <<reader_counts, chart, message, book_key, reader, branch,
                   exit, stoppedAt, consumed, prev_counts>>

\* Mutant of Close: the finally clause also redraws the chart.
CloseRedraws ==
    /\ pc = "stopping"
    /\ pc' = "stopped"
    /\ consumer' = "closed"
    /\ closes' = closes + 1
    /\ chart' = Snapshot(reader_counts)
    /\ UNCHANGED <<reader_counts, message, book_key, reader, branch,
                   exit, stoppedAt, consumed, prev_counts>>

\* main, lines 102-106: the finally clause closes the consumer, main returns.
Close ==
    /\ pc = "stopping"
    /\ pc' = "stopped"
    /\ consumer' = "closed"
    /\ closes' = closes + 1
    /\ UNCHANGED <<reader_counts, chart, message, book_key, reader, branch,
                   exit, stoppedAt, consumed, prev_counts>>

Next ==
    \/ Acquire
    \/ AcquireFails
    \/ \E m \in Payloads : Poll(m)
    \/ Decode
    \/ Subscript
    \/ AddReader
    \/ UpdateChart
    \/ Interrupt
    \/ EndOfStream
    \/ SourceError
    \/ Close

Spec == Init /\ [][Next]_vars

\* ---------------------------------------------------- reading the claims

\* The payload the Source yielded last.
LastPayload == consumed[Len(consumed)]

\* process_message has been called and has returned.
Finished == branch \notin {"none", "in_flight"}

\* The loop has ended.
Stopped == pc \in {"stopping", "stopped"}

\* A member of a payload's text, or the documented default when the text
\* does not have it.
FieldOr(text, f, default) == IF text[f] = Absent THEN default ELSE text[f]
KeyOf(text) == <<FieldOr(text, "author", Str("Unknown Author")),
                 FieldOr(text, "title", Str("Unknown Title"))>>
ReaderOf(text) == FieldOr(text, "reader", Str("Unknown Reader"))

\* An object whose author, title and reader can be a dictionary key and a
\* set element.
Usable(text) ==
    /\ text.form = "object"
    /\ \A f \in Fields : text[f].t # "list"

\* The last message's tally change has been made and the chart has not been
\* redrawn from it.
Torn == reader_counts # prev_counts /\ chart # Snapshot(reader_counts)

\* ------------------------------------------------------------------- C1

\* C1: once a reader is in the set of a key, a further message with the
\* same author, title and reader is processed to the end and leaves
\* reader_counts exactly as it was (no set grows, no key appears); a run fed
\* one payload over and over ends with one key whose set has one reader.
C1_Idempotent ==
    /\ (/\ Finished
        /\ message.form = "object"
        /\ KeyOf(message) \in DOMAIN prev_counts
        /\ ReaderOf(message) \in prev_counts[KeyOf(message)])
       => (branch = "updated" /\ reader_counts = prev_counts)
    /\ (/\ Finished
        /\ Usable(message)
        /\ \A i \in 1..Len(consumed) : consumed[i] = message)
       => (/\ DOMAIN reader_counts = {KeyOf(message)}
           /\ Cardinality(reader_counts[KeyOf(message)]) = 1)

\* The same usable payload three times, the set of its key holding another
\* reader too.
C1_Witness ==
    /\ pc = "polling"
    /\ branch = "updated"
    /\ Len(consumed) = 3
    /\ consumed[2] = consumed[3]
    /\ KeyOf(consumed[1]) = KeyOf(message)
    /\ ReaderOf(consumed[1]) # ReaderOf(message)
    /\ Cardinality(reader_counts[KeyOf(message)]) = 2

\* ------------------------------------------------------------------- C2

\* C2: from the moment the consumer is acquired until the loop has ended
\* close() has not been called; once the loop has ended close() can always
\* run; when main has returned close() has been called exactly once,
\* whatever ended the loop.
C2_ClosedExactlyOnce ==
    /\ closes <= 1
    /\ pc \in Running \cup {"stopping"} => (closes = 0 /\ consumer = "open")
    /\ pc = "stopping" => ENABLED Close
    /\ pc = "stopped" => (closes = 1 /\ consumer = "closed")

\* main has returned after an interruption that came inside process_message.
C2_Witness ==
    /\ pc = "stopped"
    /\ exit = "interrupt"
    /\ stoppedAt = "presenting"
    /\ closes = 1

\* ------------------------------------------------------------------- C3

\* C3: a payload that is not JSON never changes reader_counts and never ends
\* the loop with an error: it is being decoded, or process_message has
\* returned through the JSONDecodeError clause to the top of the loop, or the
\* user interrupted the decoding.
C3_MalformedSkipped ==
    (Len(consumed) > 0 /\ LastPayload.form = "malformed")
    => /\ reader_counts = prev_counts
       /\ \/ pc = "decoding" /\ branch = "in_flight"
          \/ /\ branch = "json_error"
             /\ pc = "polling" \/ (Stopped /\ stoppedAt = "polling")
          \/ /\ branch = "in_flight"
             /\ Stopped /\ exit = "interrupt" /\ stoppedAt = "decoding"

\* After a payload that is not JSON the loop has polled the next message and
\* counted it.
C3_Witness ==
    /\ Len(consumed) = 3
    /\ consumed[2].form = "malformed"
    /\ branch = "updated"
    /\ reader_counts # prev_counts

\* ------------------------------------------------------------------- C4

\* C4 (as claimed): interruption is seen only at the top of the loop, so a
\* user interruption never ends the loop after a message's reader has been
\* added and before the chart has been redrawn from it.
C4_InterruptOnlyBetweenMessages ==
    exit = "interrupt" => ~(stoppedAt = "presenting" /\ Torn)

\* C4 (amended): an interruption ends the loop from the top of the loop or
\* from any point inside process_message, and the interrupted message never
\* completes; end-of-stream and a Source error end the loop at the top only;
\* a message whose reader has been added returns with the chart redrawn from
\* the resulting tally; after the loop has ended the tally, the chart and the
\* message's outcome never change.
C4_InterruptAbandonsMessage ==
    /\ [](/\ exit # "none" => Stopped
          /\ (Stopped /\ exit # "interrupt") => stoppedAt = "polling"
          /\ (Stopped /\ stoppedAt # "polling") => branch = "in_flight"
          /\ branch = "updated" => chart = Snapshot(reader_counts))
    /\ [][Stopped => UNCHANGED <<reader_counts, chart, branch, consumed>>]_vars

\* The loop was interrupted between .add(reader) and update_chart(): the
\* reader is counted and the chart does not show it.
C4_Witness ==
    /\ pc = "stopped"
    /\ exit = "interrupt"
    /\ stoppedAt = "presenting"
    /\ Torn

\* ------------------------------------------------------------------- C5

\* C5: whatever the object, the key and the reader process_message works
\* with are the given members, each absent one replaced by its own default;
\* and an object whose members (given or defaulted) are usable, the empty
\* object among them, returns with that reader in the set of that key.
C5_Defaults ==
    /\ pc \in {"aggregating", "adding", "presenting"}
       => (book_key = KeyOf(message) /\ reader = ReaderOf(message))
    /\ (Finished /\ Usable(message))
       => (/\ branch = "updated"
           /\ KeyOf(message) \in DOMAIN reader_counts
           /\ ReaderOf(message) \in reader_counts[KeyOf(message)])

\* The empty object {} has been processed on its own.
C5_Witness ==
    /\ pc = "polling"
    /\ consumed = <<Object(Absent, Absent, Absent)>>
    /\ branch = "updated"
    /\ DOMAIN reader_counts = {<<Str("Unknown Author"), Str("Unknown Title")>>}
    /\ reader_counts[<<Str("Unknown Author"), Str("Unknown Title")>>]
         = {Str("Unknown Reader")}

\* ------------------------------------------------------------------- C6

\* C6: a payload that is JSON and not an object never changes reader_counts
\* and never takes an except clause: it is being decoded, or process_message
\* has returned past the isinstance test to the top of the loop, or the user
\* interrupted the decoding.
C6_NonObjectIgnored ==
    (Len(consumed) > 0 /\ LastPayload.form \in {"number", "array"})
    => /\ reader_counts = prev_counts
       /\ \/ pc = "decoding" /\ branch = "in_flight"
          \/ /\ branch = "not_dict"
             /\ pc = "polling" \/ (Stopped /\ stoppedAt = "polling")
          \/ /\ branch = "in_flight"
             /\ Stopped /\ exit = "interrupt" /\ stoppedAt = "decoding"

\* A list arrived when the tally already held a key, and the message after
\* it was counted.
C6_Witness ==
    /\ Len(consumed) = 3
    /\ consumed[2].form = "array"
    /\ DOMAIN prev_counts # {}
    /\ branch = "updated"

\* ------------------------------------------------------------------- C7

\* C7 (as claimed): whenever the loop is about to poll, the chart shows the
\* current reader_counts.
C7_ChartCurrentWhenPolling ==
    pc = "polling" => chart = Snapshot(reader_counts)

\* ------------------------------------------------------------------- C8

\* C8: an error raised by the consumer's iterator ends the loop at once, with
\* nothing processed after it, close() able to run and main returning with
\* the consumer closed; once the consumer is acquired no error leaves main,
\* whether it comes from the Source or from a step of process_message.
C8_ErrorsEndGracefully ==
    /\ [](/\ exit = "error" => (Stopped /\ stoppedAt = "polling")
          /\ pc = "stopping" => ENABLED Close
          /\ pc = "stopped" => consumer = "closed"
          /\ pc = "raised" => (consumer = "none" /\ consumed = <<>>))
    /\ [][exit = "error"
          => UNCHANGED <<reader_counts, chart, consumed, branch, exit>>]_vars

\* main has returned after a Source error that followed a message which
\* raised inside process_message.
C8_Witness ==
    /\ pc = "stopped"
    /\ exit = "error"
    /\ branch = "exception"
    /\ consumer = "closed"

\* ------------------------------------------------------------------- C9

\* C9 (as claimed): a message that ends in an except clause leaves
\* reader_counts as it was, and between messages every key has a reader.
C9_ErrorsLeaveTallyUntouched ==
    /\ branch \in {"json_error", "exception"} => reader_counts = prev_counts
    /\ pc = "polling" => \A k \in DOMAIN reader_counts : reader_counts[k] # {}

\* ------------------------------------------------------------------ C10

\* The aggregate the claim describes: the keys of the object messages, each
\* with the readers of the object messages that have it.  A message whose
\* author, title or reader cannot be hashed ends in an except clause and is
\* taken to contribute nothing, as C9 has it.
RefAggregate(seq) ==
    LET objs == {i \in 1..Len(seq) : Usable(seq[i])}
        keys == {KeyOf(seq[i]) : i \in objs}
    IN  [k \in keys |-> {ReaderOf(seq[i]) : i \in {j \in objs : KeyOf(seq[j]) = k}}]

\* C10 (as claimed): between messages reader_counts is the reference
\* aggregate of the payloads consumed so far, and a message leaves the set
\* of every key other than its own as it was.
C10_TallyIsReferenceAggregate ==
    /\ pc = "polling" => reader_counts = RefAggregate(consumed)
    /\ Finished
       => \A k \in DOMAIN prev_counts :
            k # KeyOf(message)
            => (k \in DOMAIN reader_counts /\ reader_counts[k] = prev_counts[k])

====
